---- MODULE Spec2Model ----
(***************************************************************************)
(* Model of cpu_user_exporter.py: the collector that scans the process     *)
(* table (collect_cpu_memory_data) and the aggregator that turns two       *)
(* successive snapshots into gauge values with a threshold gate and a      *)
(* grace-period eviction (update_metrics), driven by the tick loop of      *)
(* __main__.                                                               *)
(*                                                                         *)
(* Percentages are Python floats in the source.  Here they are exact       *)
(* rationals <<numerator, denominator>> in lowest terms with a positive    *)
(* denominator; the float rounding of (a / b) * 100.0 is not modelled.     *)
(***************************************************************************)
EXTENDS Integers, FiniteSets, Sequences, TLC

\* ------------------------------------------------------------------ bounds
MaxTotal == 2       \* cap on the /proc/stat total counter of a running host
MaxClock == 6       \* no tick starts after this time
MaxHostClock == 2   \* no tick on a live host starts after this time
MaxRss == 1         \* largest resident set size of a process, in pages
MaxJitter == 0      \* extra time a loop cycle may take beyond the sleep
MaxCpu == 1         \* largest per-user counter of a synthetic snapshot

\* the slots of the process table
Pids == {1, 2}

\* ------------------------------------------------------- rational numbers
Abs(x) == IF x < 0 THEN -x ELSE x

RECURSIVE GCD(_, _)
GCD(a, b) == IF b = 0 THEN a ELSE GCD(b, a % b)

\* n / d in lowest terms, for d # 0
Rat(n, d) ==
    LET g == GCD(Abs(n), Abs(d))
        s == IF d < 0 THEN -1 ELSE 1
    IN  IF n = 0 THEN <<0, 1>> ELSE <<(s * n) \div g, (s * d) \div g>>

Zero == <<0, 1>>
RatGE(x, y) == x[1] * y[2] >= y[1] * x[2]
RatOfInt(n) == <<n, 1>>

\* ------------------------------------------------------------ dictionaries
EmptyDict == [k \in {} |-> 0]
Get(d, k, default) == IF k \in DOMAIN d THEN d[k] ELSE default
\* Without that removes nothing
Without_Nothing(d, ks) == d

\* the dictionary (or labelled gauge) d after removing the keys ks
Without(d, ks) == [k \in (DOMAIN d) \ ks |-> d[k]]

RECURSIVE SumOver(_, _)
SumOver(S, f) ==
    IF S = {} THEN 0
    ELSE LET x == CHOOSE y \in S : TRUE
         IN  f[x] + SumOver(S \ {x}, f)

\* ------------------------------------------------------------- environment
\* uids that own processes: root, a system uid without a passwd entry and
\* an ordinary account
Uids == {0, 999, 1000}

getent_password == (0 :> "root") @@ (1000 :> "alice") @@ (1001 :> "bob")

PageSize == 4096

\* is_system_user with the cutoff one too low
is_system_user_LowCutoff(uid) == uid < 999

is_system_user(uid) == uid < 1000

\* outcome of reading one process's /proc files during a scan: all three
\* read; an open fails with FileNotFoundError (the process exited before
\* the open); the status file has no Uid: line; a read of an opened file
\* fails with ProcessLookupError (the process exited after the open)
ReadOutcomes == {"ok", "vanished", "no_uid_line", "no_such_process"}

\* the exceptions the scan loop catches per process
Caught == {"FileNotFoundError", "IndexError", "ValueError"}

\* the exception a read outcome raises inside the try block, "" for none
Raises(outcome) ==
    IF outcome = "vanished" THEN "FileNotFoundError"
    ELSE IF outcome = "no_such_process" THEN "ProcessLookupError"
    ELSE ""

\* the exceptions that leave the scan loop, and with it update_metrics and
\* the main loop
Uncaught(reads) == {Raises(reads[p]) : p \in DOMAIN reads} \ (Caught \cup {""})

get_total_cpu_times(stat, line_present) ==
    IF line_present THEN <<stat.total, stat.idle>> ELSE <<0, 0>>

\* the user a successfully read process is booked under, or "" when the
\* process is skipped by the uid rule
ResolveUser(proc, outcome, exclude_system_users) ==
    IF outcome = "no_uid_line" THEN "[Unknown]"
    ELSE IF exclude_system_users /\ is_system_user(proc.uid) THEN ""
    ELSE Get(getent_password, proc.uid, "[Unknown]")

\* Counted without the test against the excluded usernames
Counted_NoNameFilter(table, reads, exclude_system_users, excluded_usernames) ==
    {p \in Pids :
        /\ table[p].alive
        /\ reads[p] # "vanished"
        /\ ResolveUser(table[p], reads[p], exclude_system_users) # ""}

\* the processes a scan books: listed in /proc, read without an exception,
\* not skipped by the uid rule nor by the excluded usernames
Counted(table, reads, exclude_system_users, excluded_usernames) ==
    {p \in Pids :
        /\ table[p].alive
        /\ reads[p] # "vanished"
        /\ ResolveUser(table[p], reads[p], exclude_system_users) # ""
        /\ ResolveUser(table[p], reads[p], exclude_system_users)
              \notin excluded_usernames}

collect_cpu_memory_data(table, stat, reads, line_present, exclude_system_users, excluded_usernames) ==
    LET counted == Counted(table, reads, exclude_system_users,
                           excluded_usernames)
        userOf == [p \in counted |->
                     ResolveUser(table[p], reads[p], exclude_system_users)]
        names  == {userOf[p] : p \in counted}
        of(u)  == {p \in counted : userOf[p] = u}
        cpu    == [p \in Pids |-> table[p].cpu]
        mem    == [p \in Pids |-> table[p].rss * PageSize]
        totals == get_total_cpu_times(stat, line_present)
    IN  [total_cpu_time    |-> totals[1],
         idle_time         |-> totals[2],
         user_cpu_times    |-> [u \in names |-> SumOver(of(u), cpu)],
         total_memory_used |-> SumOver(counted, mem),
         user_memory_usage |-> [u \in names |-> SumOver(of(u), mem)]]

\* ---------------------------------------------------------------- aggregator
\* cpu_usage_percent without the factor 100
cpu_usage_percent_Fraction(total_used_cpu_time, delta_total_cpu_time) ==
    IF delta_total_cpu_time > 0
    THEN Rat(total_used_cpu_time, delta_total_cpu_time)
    ELSE Zero

\* the total CPU usage percentage
cpu_usage_percent(total_used_cpu_time, delta_total_cpu_time) ==
    IF delta_total_cpu_time > 0
    THEN Rat(100 * total_used_cpu_time, delta_total_cpu_time)
    ELSE Zero

\* usage_percent guarded against a zero delta only
usage_percent_NonZeroGuard(delta_user_cpu_time, delta_total_cpu_time) ==
    IF delta_total_cpu_time # 0
    THEN Rat(100 * delta_user_cpu_time, delta_total_cpu_time)
    ELSE Zero

\* one user's CPU usage percentage
usage_percent(delta_user_cpu_time, delta_total_cpu_time) ==
    IF delta_total_cpu_time > 0
    THEN Rat(100 * delta_user_cpu_time, delta_total_cpu_time)
    ELSE Zero

\* the labelled gauges, last_seen and users_above_threshold between the
\* gate loop and the eviction loop, before any call got there
NoGate ==
    [cpu_user_usage |-> EmptyDict, memory_user_usage |-> EmptyDict,
     last_seen |-> EmptyDict, users_above_threshold |-> {}]

\* the snapshot of no scan
NoSnapshot ==
    [total_cpu_time |-> 0, idle_time |-> 0, user_cpu_times |-> EmptyDict,
     total_memory_used |-> 0, user_memory_usage |-> EmptyDict]

\* previous_stats as the main program creates it
InitialStats ==
    [last_seen |-> EmptyDict, all_users |-> {}, users_above_threshold |-> {}]

\* the gauges after module import: the unlabelled ones read 0, the labelled
\* ones have no series
InitialGauges ==
    [cpu_total_usage    |-> Zero,
     memory_total_usage |-> 0,
     cpu_user_usage     |-> EmptyDict,
     memory_user_usage  |-> EmptyDict]

\* FirstRun that does not seed all_users
FirstRun_NoSeed(snap, current_time) ==
    [previous_total_cpu_time |-> snap.total_cpu_time,
     previous_idle_time      |-> snap.idle_time,
     previous_user_cpu_times |-> snap.user_cpu_times,
     last_update_time        |-> current_time,
     all_users               |-> {},
     users_above_threshold   |-> {},
     last_seen               |-> EmptyDict]

\* the first run: store the snapshot, publish nothing
FirstRun(snap, current_time) ==
    [previous_total_cpu_time |-> snap.total_cpu_time,
     previous_idle_time      |-> snap.idle_time,
     previous_user_cpu_times |-> snap.user_cpu_times,
     last_update_time        |-> current_time,
     all_users               |-> DOMAIN snap.user_cpu_times,
     users_above_threshold   |-> {},
     last_seen               |-> EmptyDict]

\* AboveThreshold with a strict comparison
AboveThreshold_Strict(percent, cpu_usage_threshold) ==
    {u \in DOMAIN percent : ~RatGE(cpu_usage_threshold, percent[u])}

\* users that take the first branch of the gate: usage at or over the
\* threshold
AboveThreshold(percent, cpu_usage_threshold) ==
    {u \in DOMAIN percent : RatGE(percent[u], cpu_usage_threshold)}

\* BelowButActive without the membership test
BelowButActive_Everyone(all_users, above, users_above_threshold) ==
    all_users \ above

\* users that take the second branch of the gate: under the threshold but
\* in users_above_threshold
BelowButActive(all_users, above, users_above_threshold) ==
    (all_users \ above) \cap users_above_threshold

\* SetSeries without the write of the second branch
SetSeries_KeepOld(gauge, above, zeroed, value, zero) ==
    [u \in DOMAIN gauge \cup above |->
        IF u \in above THEN value[u] ELSE gauge[u]]

\* SetSeries that writes the computed value in the second branch too
SetSeries_RawValue(gauge, above, zeroed, value, zero) ==
    [u \in DOMAIN gauge \cup above \cup zeroed |->
        IF u \in above \cup zeroed THEN value[u] ELSE gauge[u]]

\* writes of the gate to one labelled gauge
SetSeries(gauge, above, zeroed, value, zero) ==
    [u \in DOMAIN gauge \cup above \cup zeroed |->
        IF u \in above THEN value[u]
        ELSE IF u \in zeroed THEN zero
        ELSE gauge[u]]

\* Expired with a strict comparison
Expired_Strict(active, last_seen, current_time, grace_period) ==
    {u \in active : current_time - Get(last_seen, u, 0) > grace_period}

\* Expired with the fallback timestamp for every user
Expired_SinceEpoch(active, last_seen, current_time, grace_period) ==
    {u \in active : current_time - 0 >= grace_period}

\* active users whose grace period has run out
Expired(active, last_seen, current_time, grace_period) ==
    {u \in active : current_time - Get(last_seen, u, 0) >= grace_period}

\* KnownUsers that forgets the users kept from before
KnownUsers_CurrentOnly(all_users, user_cpu_times) == DOMAIN user_cpu_times

\* all_users of a later run: the users kept from before and the users of
\* the snapshot
KnownUsers(all_users, user_cpu_times) == all_users \cup DOMAIN user_cpu_times

\* LastSeen that refreshes every user it holds
LastSeen_RefreshActive(last_seen, above, current_time) ==
    [u \in DOMAIN last_seen \cup above |-> current_time]

\* LastSeen that records nobody
LastSeen_Forget(last_seen, above, current_time) == last_seen

\* last_seen after the gate: only the users at or over the threshold get
\* the time of the call
LastSeen(last_seen, above, current_time) ==
    [u \in DOMAIN last_seen \cup above |->
        IF u \in above THEN current_time ELSE last_seen[u]]

\* UpdatePrevious that stores no per-user counters
UpdatePrevious_DropUsers(snap, current_time) ==
    [previous_total_cpu_time |-> snap.total_cpu_time,
     previous_idle_time      |-> snap.idle_time,
     previous_user_cpu_times |-> EmptyDict,
     last_update_time        |-> current_time]

\* the counters and the time a later run stores at its end
UpdatePrevious(snap, current_time) ==
    [previous_total_cpu_time |-> snap.total_cpu_time,
     previous_idle_time      |-> snap.idle_time,
     previous_user_cpu_times |-> snap.user_cpu_times,
     last_update_time        |-> current_time]

\* one call of update_metrics on the snapshot the collector returned; the
\* result holds the new previous_stats, the new gauges and the values of the
\* call's local variables
update_metrics(previous_stats, gauges, snap, current_time, grace_period, cpu_usage_threshold) ==
    IF "previous_total_cpu_time" \notin DOMAIN previous_stats
    THEN [stats  |-> FirstRun(snap, current_time),
          gauges |-> gauges,
          locals |-> [first_run |-> TRUE, current_time |-> current_time,
                      delta_total_cpu_time |-> 0, delta_idle_time |-> 0,
                      delta_user |-> EmptyDict, usage_percent |-> EmptyDict,
                      removed |-> {}, gate |-> NoGate, snap |-> snap,
                      total_memory_used |-> snap.total_memory_used,
                      user_memory_usage |-> snap.user_memory_usage]]
    ELSE
    LET delta_total_cpu_time ==
            snap.total_cpu_time - previous_stats.previous_total_cpu_time
        delta_idle_time == snap.idle_time - previous_stats.previous_idle_time
        total_used_cpu_time == delta_total_cpu_time - delta_idle_time
        total_percent ==
            cpu_usage_percent(total_used_cpu_time, delta_total_cpu_time)
        all_users == KnownUsers(previous_stats.all_users, snap.user_cpu_times)
        delta_user == [u \in all_users |->
            Get(snap.user_cpu_times, u, 0)
              - Get(previous_stats.previous_user_cpu_times, u, 0)]
        percent == [u \in all_users |->
            usage_percent(delta_user[u], delta_total_cpu_time)]
        memory == [u \in all_users |-> Get(snap.user_memory_usage, u, 0)]
        above  == AboveThreshold(percent, cpu_usage_threshold)
        zeroed == BelowButActive(all_users, above,
                                 previous_stats.users_above_threshold)
        cpu1 == SetSeries(gauges.cpu_user_usage, above, zeroed, percent, Zero)
        mem1 == SetSeries(gauges.memory_user_usage, above, zeroed, memory, 0)
        seen1 == LastSeen(previous_stats.last_seen, above, current_time)
        active1 == previous_stats.users_above_threshold \cup above
        removed == Expired(active1, seen1, current_time, grace_period)
    IN  [stats |->
            UpdatePrevious(snap, current_time) @@
            [all_users               |-> all_users \ removed,
             users_above_threshold   |-> active1 \ removed,
             last_seen               |-> Without(seen1, removed)],
         gauges |->
            [cpu_total_usage    |-> total_percent,
             memory_total_usage |-> snap.total_memory_used,
             cpu_user_usage     |-> Without(cpu1, removed),
             memory_user_usage  |-> Without(mem1, removed)],
         locals |->
            [first_run |-> FALSE, current_time |-> current_time,
             delta_total_cpu_time |-> delta_total_cpu_time,
             delta_idle_time |-> delta_idle_time,
             delta_user |-> delta_user, usage_percent |-> percent,
             removed |-> removed,
             gate |-> [cpu_user_usage |-> cpu1, memory_user_usage |-> mem1,
                       last_seen |-> seen1, users_above_threshold |-> active1],
             snap |-> snap,
             total_memory_used |-> snap.total_memory_used,
             user_memory_usage |-> snap.user_memory_usage]]

\* ------------------------------------------------------------ state machine
VARIABLES
    config,          \* the parsed command line, fixed at startup
    procs,           \* the process table behind /proc/<pid>
    stat,            \* the "cpu " counters of /proc/stat
    clock,           \* time.time()
    previous_stats,  \* the dictionary the main loop threads through
    gauges,          \* the four Prometheus gauges
    locals,          \* local variables of the last update_metrics call
    scan,            \* what the reads of the last scan of /proc returned
    tick,            \* where the main thread is
    pulled           \* what the last scrape of the HTTP thread read

vars ==
    <<config, procs, stat, clock, previous_stats, gauges, locals, scan,
      tick, pulled>>

NoProc == [alive |-> FALSE, uid |-> 0, cpu |-> 0, rss |-> 0]

NoCall ==
    [first_run |-> FALSE, current_time |-> -1,
     delta_total_cpu_time |-> 0, delta_idle_time |-> 0,
     delta_user |-> EmptyDict, usage_percent |-> EmptyDict,
     removed |-> {}, gate |-> NoGate, snap |-> NoSnapshot,
     total_memory_used |-> 0,
     user_memory_usage |-> EmptyDict]

\* the main thread between two calls of update_metrics
Sleeping ==
    [at |-> "sleep", exception |-> "", snap |-> NoSnapshot,
     current_time |-> -1, before |-> InitialGauges, writes |-> <<>>]

\* the main thread after an exception left the main loop
Terminated(exception) == [Sleeping EXCEPT !.at = "raised", !.exception = exception]

\* no scrape yet
NoPull ==
    [cpu_user_usage |-> EmptyDict, memory_user_usage |-> EmptyDict,
     mid_update |-> FALSE]

NoScan == [reads |-> [p \in Pids |-> "ok"], line_present |-> TRUE]

\* the program right after startup, before the first loop iteration
Startup ==
    /\ clock = 0
    /\ previous_stats = InitialStats
    /\ gauges = InitialGauges
    /\ locals = NoCall
    /\ scan = NoScan
    /\ tick = Sleeping
    /\ pulled = NoPull

\* the body of the main loop on a collected snapshot: update_metrics, then
\* time.sleep(scrape_interval); the cycle takes the sleep and one of the
\* extra times in jitters
LoopBody(snap, jitters) ==
    /\ tick = Sleeping
    /\ UNCHANGED <<tick, pulled>>
    /\ \E r \in {update_metrics(previous_stats, gauges, snap, clock,
                       config.grace_period, config.cpu_usage_threshold)} :
           /\ previous_stats' = r.stats
           /\ gauges' = r.gauges
           /\ locals' = r.locals
    /\ \E jitter \in jitters :
           clock' = clock + config.scrape_interval + jitter

\* ----------------------------------------------- the exporter on a live host
\* command lines with and without --exclude-users alice; "root" is always
\* excluded
HostConfigs ==
    [scrape_interval      : {2},
     grace_period         : {3},
     cpu_usage_threshold  : {RatOfInt(5)},
     exclude_system_users : {FALSE},
     excluded_usernames   : {{"root"} \cup extra : extra \in {{}, {"alice"}}}]

Init ==
    /\ config \in HostConfigs
    /\ procs = [p \in Pids |-> NoProc]
    /\ stat = [total |-> 0, idle |-> 0]
    /\ Startup

\* the host is followed up to its last scan
Observed == clock <= MaxHostClock

\* a process is created
Spawn(p, uid) ==
    /\ Observed
    /\ ~procs[p].alive
    /\ procs' = [procs EXCEPT ![p] =
                    [alive |-> TRUE, uid |-> uid, cpu |-> 0, rss |-> 1]]
    /\ UNCHANGED <<config, stat, clock, previous_stats, gauges, locals, scan, tick, pulled>>

\* a process exits and is reaped
Exit(p) ==
    /\ Observed
    /\ procs[p].alive
    /\ procs' = [procs EXCEPT ![p] = NoProc]
    /\ UNCHANGED <<config, stat, clock, previous_stats, gauges, locals, scan, tick, pulled>>

\* a process changes its owner (setuid)
SetUid(p, uid) ==
    /\ Observed
    /\ procs[p].alive
    /\ procs[p].uid # uid
    /\ procs' = [procs EXCEPT ![p].uid = uid]
    /\ UNCHANGED <<config, stat, clock, previous_stats, gauges, locals, scan, tick, pulled>>

\* a process runs for one clock tick
Run(p) ==
    /\ Observed
    /\ procs[p].alive
    /\ stat.total < MaxTotal
    /\ procs' = [procs EXCEPT ![p].cpu = @ + 1]
    /\ stat' = [stat EXCEPT !.total = @ + 1]
    /\ UNCHANGED <<config, clock, previous_stats, gauges, locals, scan, tick, pulled>>

\* a processor idles for one clock tick
IdleTime ==
    /\ Observed
    /\ stat.total < MaxTotal
    /\ stat' = [total |-> stat.total + 1, idle |-> stat.idle + 1]
    /\ UNCHANGED <<config, procs, clock, previous_stats, gauges, locals, scan, tick, pulled>>

\* the ways a scan of the current process table can go, given the outcomes
\* a read can have
Scans(outcomes) ==
    {r \in [Pids -> outcomes] :
        \A p \in Pids : ~procs[p].alive => r[p] = "ok"}

\* the reads followed on the live host: every status file has a Uid: line,
\* and a process that exits during a scan does so before its files are
\* opened
HostOutcomes == {"ok", "vanished"}

\* one iteration of the main loop; a process whose files have vanished has
\* exited during the scan
Tick(reads, line_present) ==
    /\ Observed
    /\ Uncaught(reads) = {}
    /\ \E snap \in {collect_cpu_memory_data(procs, stat, reads, line_present,
                   config.exclude_system_users, config.excluded_usernames)} :
           LoopBody(snap, 0..MaxJitter)
    /\ scan' = [reads |-> reads, line_present |-> line_present]
    /\ procs' = [p \in Pids |->
                    IF reads[p] = "vanished" THEN NoProc ELSE procs[p]]
    /\ UNCHANGED <<config, stat>>

\* one iteration of the main loop in which a read raises an exception the
\* scan loop does not catch: it leaves collect_cpu_memory_data,
\* update_metrics and the while loop, and the program ends
TickRaises(reads) ==
    /\ Observed
    /\ tick = Sleeping
    /\ Uncaught(reads) # {}
    /\ \E exception \in Uncaught(reads) : tick' = Terminated(exception)
    /\ UNCHANGED <<config, procs, stat, clock, previous_stats, gauges, locals,
                   scan, pulled>>

Next ==
    \/ \E p \in Pids, uid \in Uids : Spawn(p, uid)
    \/ \E p \in Pids : Exit(p)
    \/ \E p \in Pids, uid \in Uids : SetUid(p, uid)
    \/ \E p \in Pids : Run(p)
    \/ IdleTime
    \/ \E reads \in Scans(HostOutcomes), line_present \in BOOLEAN :
          Tick(reads, line_present)

Spec == Init /\ [][Next]_vars

\* ------------------------------------------ scans of a fixed process table
\* command lines with and without --exclude-system-users and --exclude-users
\* alice
Configs ==
    [scrape_interval      : {2},
     grace_period         : {3},
     cpu_usage_threshold  : {RatOfInt(5)},
     exclude_system_users : BOOLEAN,
     excluded_usernames   : {{"root"} \cup extra : extra \in {{}, {"alice"}}}]

\* a process of a table: it has used CPU time and holds at least one page
Processes ==
    [alive : {TRUE}, uid : Uids, cpu : 1..MaxTotal, rss : 1..MaxRss]

Tables == [Pids -> Processes \cup {NoProc}]

InitScan ==
    /\ config \in Configs
    /\ procs \in Tables
    /\ stat = [total |-> 2 * MaxTotal, idle |-> 0]
    /\ Startup

NextScan ==
    \/ \E reads \in Scans(ReadOutcomes), line_present \in BOOLEAN :
          Tick(reads, line_present)
    \/ \E reads \in Scans(ReadOutcomes) : TickRaises(reads)

SpecScan == InitScan /\ [][NextScan]_vars

\* ------------------------------------- update_metrics on synthetic snapshots
SnapUsers == {"alice", "bob"}
SnapTotals == {0, 20, 60}

UserCounters == UNION {[K -> 0..MaxCpu] : K \in SUBSET SnapUsers}

\* what the collector can return on a host that is never idle and on which
\* every user holds one page: the per-user counters fit into the busy time
\* (see Plausible), or the "cpu " line was missing; idle time is part of the
\* scenario and of the live host below
Snapshots ==
    {[total_cpu_time    |-> t,
      idle_time         |-> 0,
      user_cpu_times    |-> m,
      total_memory_used |-> Cardinality(DOMAIN m) * PageSize,
      user_memory_usage |-> [u \in DOMAIN m |-> PageSize]] :
        t \in SnapTotals, m \in UserCounters}

Plausible(snap) ==
    /\ snap.idle_time <= snap.total_cpu_time
    /\ \/ snap.total_cpu_time = 0
       \/ SumOver(DOMAIN snap.user_cpu_times, snap.user_cpu_times)
             <= snap.total_cpu_time - snap.idle_time

SnapshotConfigs ==
    [scrape_interval      : {2},
     grace_period         : {0, 4},
     cpu_usage_threshold  : {RatOfInt(5)},
     exclude_system_users : {FALSE},
     excluded_usernames   : {{"root"}}]

InitSnapshots ==
    /\ config \in SnapshotConfigs
    /\ procs = [p \in Pids |-> NoProc]
    /\ stat = [total |-> 0, idle |-> 0]
    /\ Startup

PlausibleSnapshots == {snap \in Snapshots : Plausible(snap)}

\* one iteration of the main loop in which the collector returns snap
Update(snap) ==
    /\ clock <= MaxClock
    /\ LoopBody(snap, 0..MaxJitter)
    /\ UNCHANGED <<config, procs, stat, scan>>

NextSnapshots ==
    \E snap \in PlausibleSnapshots : Update(snap)

SpecSnapshots == InitSnapshots /\ [][NextSnapshots]_vars

\* ------------------------------- update_metrics one gauge call at a time
\* a call of set or remove on a gauge; the unlabelled gauges have user ""
SetCall(gauge, user, value) ==
    [gauge |-> gauge, user |-> user, op |-> "set", value |-> value]
RemoveCall(gauge, user) ==
    [gauge |-> gauge, user |-> user, op |-> "remove", value |-> 0]

\* the gauges after one call
Apply(g, call) ==
    IF call.user = "" THEN [g EXCEPT ![call.gauge] = call.value]
    ELSE IF call.op = "set"
    THEN [g EXCEPT ![call.gauge] = (call.user :> call.value) @@ @]
    ELSE [g EXCEPT ![call.gauge] = Without(@, {call.user})]

\* the orders in which a loop can go through the set S
Orders(S) ==
    {o \in [1..Cardinality(S) -> S] :
        \A i, j \in 1..Cardinality(S) : o[i] = o[j] => i = j}

\* the calls f makes for the elements of the sequence o, one after the other
RECURSIVE CallsInOrder(_, _)
CallsInOrder(o, f) ==
    IF o = <<>> THEN <<>> ELSE f[Head(o)] \o CallsInOrder(Tail(o), f)

\* the gauge calls of one update_metrics call, in the orders the two loops
\* over sets can take
GaugeCalls(stats, snap, current_time, grace_period, cpu_usage_threshold) ==
    IF "previous_total_cpu_time" \notin DOMAIN stats THEN {<<>>}
    ELSE
    LET r == update_metrics(stats, InitialGauges, snap, current_time,
                            grace_period, cpu_usage_threshold)
        percent == r.locals.usage_percent
        all_users == DOMAIN percent
        above == AboveThreshold(percent, cpu_usage_threshold)
        zeroed == BelowButActive(all_users, above,
                                 stats.users_above_threshold)
        gate == [u \in all_users |->
                   IF u \in above
                   THEN <<SetCall("cpu_user_usage", u, percent[u]),
                          SetCall("memory_user_usage", u,
                                  Get(snap.user_memory_usage, u, 0))>>
                   ELSE IF u \in zeroed
                   THEN <<SetCall("cpu_user_usage", u, Zero),
                          SetCall("memory_user_usage", u, 0)>>
                   ELSE <<>>]
        evict == [u \in r.locals.removed |->
                   <<RemoveCall("cpu_user_usage", u),
                     RemoveCall("memory_user_usage", u)>>]
    IN  {<<SetCall("cpu_total_usage", "", r.gauges.cpu_total_usage),
           SetCall("memory_total_usage", "", snap.total_memory_used)>>
           \o CallsInOrder(users, gate) \o CallsInOrder(expired, evict) :
             users \in Orders(all_users),
             expired \in Orders(r.locals.removed)}

\* the labelled gauges of g
PerUser(g) ==
    [cpu_user_usage |-> g.cpu_user_usage,
     memory_user_usage |-> g.memory_user_usage]

InitPull ==
    /\ config \in SnapshotConfigs
    /\ procs = [p \in Pids |-> NoProc]
    /\ stat = [total |-> 0, idle |-> 0]
    /\ Startup

\* the main thread enters update_metrics and the collector returns snap
StartUpdate(snap) ==
    /\ Observed
    /\ tick = Sleeping
    /\ \E writes \in GaugeCalls(previous_stats, snap, clock,
                       config.grace_period, config.cpu_usage_threshold) :
          tick' = [at |-> "update", exception |-> "", snap |-> snap,
                   current_time |-> clock, before |-> gauges,
                   writes |-> writes]
    /\ UNCHANGED <<config, procs, stat, clock, previous_stats, gauges, locals,
                   scan, pulled>>

\* the main thread performs its next gauge call
GaugeCall ==
    /\ tick.at = "update"
    /\ tick.writes # <<>>
    /\ gauges' = Apply(gauges, Head(tick.writes))
    /\ tick' = [tick EXCEPT !.writes = Tail(@)]
    /\ UNCHANGED <<config, procs, stat, clock, previous_stats, locals, scan,
                   pulled>>

\* the main thread leaves update_metrics and sleeps
Return ==
    /\ tick.at = "update"
    /\ tick.writes = <<>>
    /\ \E r \in {update_metrics(previous_stats, tick.before, tick.snap,
                       tick.current_time, config.grace_period,
                       config.cpu_usage_threshold)} :
           /\ previous_stats' = r.stats
           /\ locals' = r.locals
    /\ \E jitter \in 0..MaxJitter :
           clock' = clock + config.scrape_interval + jitter
    /\ tick' = Sleeping
    /\ UNCHANGED <<config, procs, stat, gauges, scan, pulled>>

\* the HTTP thread serves a scrape: it reads the labelled gauges
Pull ==
    /\ pulled' =
          [cpu_user_usage |-> gauges.cpu_user_usage,
           memory_user_usage |-> gauges.memory_user_usage,
           mid_update |-> tick.at = "update"]
    /\ UNCHANGED <<config, procs, stat, clock, previous_stats, gauges, locals,
                   scan, tick>>

NextPull ==
    \/ \E snap \in PlausibleSnapshots : StartUpdate(snap)
    \/ GaugeCall
    \/ Return
    \/ Pull

SpecPull == InitPull /\ [][NextPull]_vars

\* ------------------------------------------- the worked scenario of the spec
\* threshold 5.0, grace period 60 s, interval 10 s
ScenarioConfig ==
    [scrape_interval      |-> 10,
     grace_period         |-> 60,
     cpu_usage_threshold  |-> RatOfInt(5),
     exclude_system_users |-> FALSE,
     excluded_usernames   |-> {"root"}]

\* what the host does in one interval besides alice: the counters' gains
Loads ==
    {[total |-> 100, idle |-> 40, A |-> 30, B |-> 20],
     [total |-> 100, idle |-> 90, A |-> 0,  B |-> 0],
     [total |-> 200, idle |-> 100, A |-> 30, B |-> 20]}

\* alice's share of the interval's CPU time, in percent, in the n-th tick
AliceShare(n) == IF n = 2 THEN 8 ELSE 2

\* the counters the first scan of the scenario reads
ScenarioBase ==
    [total_cpu_time    |-> 1000,
     idle_time         |-> 600,
     user_cpu_times    |-> [u \in {"alice", "A", "B"} |-> 0],
     total_memory_used |-> 3 * PageSize,
     user_memory_usage |-> [u \in {"alice", "A", "B"} |-> PageSize]]

\* the snapshot of a scan one interval after the snapshot held in stats
ScenarioSnapshot(stats, load, n) ==
    IF "previous_total_cpu_time" \notin DOMAIN stats THEN ScenarioBase
    ELSE [ScenarioBase EXCEPT
            !.total_cpu_time = stats.previous_total_cpu_time + load.total,
            !.idle_time = stats.previous_idle_time + load.idle,
            !.user_cpu_times =
                [u \in {"alice", "A", "B"} |->
                    stats.previous_user_cpu_times[u]
                      + (IF u = "alice"
                         THEN (AliceShare(n) * load.total) \div 100
                         ELSE load[u])]]

\* number of ticks done
TicksDone == clock \div config.scrape_interval

InitScenario ==
    /\ config = ScenarioConfig
    /\ procs = [p \in Pids |-> NoProc]
    /\ stat = [total |-> 0, idle |-> 0]
    /\ Startup

ScenarioTick(load) ==
    /\ TicksDone < 9
    /\ LoopBody(ScenarioSnapshot(previous_stats, load, TicksDone + 1), {0})
    /\ UNCHANGED <<config, procs, stat, scan>>

NextScenario == \E load \in Loads : ScenarioTick(load)

SpecScenario == InitScenario /\ [][NextScenario]_vars

\* ------------------------------------------------------------------ claims
Names == {"root", "alice", "bob", "[Unknown]", "A", "B"}

Threshold == config.cpu_usage_threshold
Series(g) == DOMAIN g.cpu_user_usage
MemSeries(g) == DOMAIN g.memory_user_usage

\* the user's usage was computed in the call and passed the threshold
AtOrAbove(l, u) ==
    u \in DOMAIN l.usage_percent /\ RatGE(l.usage_percent[u], Threshold)
\* the user's usage was computed in the call and lies under the threshold
Under(l, u) ==
    u \in DOMAIN l.usage_percent /\ ~RatGE(l.usage_percent[u], Threshold)

\* C1: a per-user series appears only in a tick in which the user's computed
\* percentage is at or over the threshold, and a user under the threshold
\* who is not in users_above_threshold gets no series, no last_seen entry
\* and no membership in users_above_threshold in that tick.
C1_CreatedOnlyAtThreshold ==
    [][\A u \in Names :
        /\ (u \notin Series(gauges) /\ u \in Series(gauges'))
              => AtOrAbove(locals', u)
        /\ (u \notin MemSeries(gauges) /\ u \in MemSeries(gauges'))
              => AtOrAbove(locals', u)
        /\ (Under(locals', u)
              /\ u \notin previous_stats.users_above_threshold)
              => /\ u \notin Series(gauges')
                 /\ u \notin MemSeries(gauges')
                 /\ u \notin DOMAIN previous_stats'.last_seen
                 /\ u \notin previous_stats'.users_above_threshold]_vars

\* a tick left a user with positive usage under the threshold without a
\* series while another user has one
C1_Witness ==
    \E u \in Names, v \in Names :
        /\ Under(locals, u)
        /\ locals.usage_percent[u] # Zero
        /\ u \notin Series(gauges)
        /\ v \in Series(gauges)

\* C2: in a tick in which a user that already has a series is under the
\* threshold and now - last_seen[user] < grace_period, both gauges hold the
\* user's series with the value 0 at the end of the tick.
C2_ZeroInsideGrace ==
    [][\A u \in Names :
        (/\ u \in Series(gauges)
         /\ u \in DOMAIN previous_stats.last_seen
         /\ Under(locals', u)
         /\ locals'.current_time - previous_stats.last_seen[u]
               < config.grace_period)
        => /\ u \in Series(gauges')
           /\ gauges'.cpu_user_usage[u] = Zero
           /\ u \in MemSeries(gauges')
           /\ gauges'.memory_user_usage[u] = 0]_vars

\* a user with positive usage under the threshold reports 0 on both gauges
\* in a tick after the one that last saw it over the threshold
C2_Witness ==
    \E u \in Names :
        /\ Under(locals, u)
        /\ locals.usage_percent[u] # Zero
        /\ Get(locals.user_memory_usage, u, 0) > 0
        /\ u \in Series(gauges)
        /\ gauges.cpu_user_usage[u] = Zero
        /\ gauges.memory_user_usage[u] = 0
        /\ previous_stats.last_seen[u] < locals.current_time

\* C3: with last_seen[user] as the eviction pass reads it (refreshed to now
\* when the user is at or over the threshold in the tick), a user is kept
\* in every tick in which now - last_seen[user] < grace_period and is
\* removed from both gauges, users_above_threshold, all_users and last_seen
\* in the first tick in which now - last_seen[user] >= grace_period, which
\* comes less than one loop cycle after last_seen + grace_period.
C3_RemovedAtGraceEnd ==
    [][~locals'.first_run =>
        \A u \in previous_stats.users_above_threshold
                    \cup {n \in Names : AtOrAbove(locals', n)} :
           LET now == locals'.current_time
               seen == IF AtOrAbove(locals', u) THEN now
                       ELSE previous_stats.last_seen[u]
               cycle == now - previous_stats.last_update_time
           IN  IF now - seen < config.grace_period
               THEN /\ u \in Series(gauges')
                    /\ u \in MemSeries(gauges')
                    /\ u \in previous_stats'.users_above_threshold
                    /\ u \in DOMAIN previous_stats'.last_seen
               ELSE /\ u \notin Series(gauges')
                    /\ u \notin MemSeries(gauges')
                    /\ u \notin previous_stats'.users_above_threshold
                    /\ u \notin previous_stats'.all_users
                    /\ u \notin DOMAIN previous_stats'.last_seen
                    /\ now < seen + config.grace_period + cycle]_vars

\* a tick removed a user whose grace period, longer than one loop cycle,
\* had run out
C3_Witness ==
    /\ config.grace_period > config.scrape_interval
    /\ \E u \in locals.removed :
          /\ u \notin Series(gauges)
          /\ u \notin previous_stats.all_users

\* C5: at the end of every tick the users with a cpu_user_usage series, the
\* users with a memory_user_usage series and users_above_threshold are the
\* same set; each of them was given its value by this tick, and the users
\* the tick removed are in none of the three.
C5_SeriesAreActiveUsers ==
    LET active == previous_stats.users_above_threshold
    IN  /\ Series(gauges) = active
        /\ MemSeries(gauges) = active
        /\ \A u \in active :
              /\ u \in DOMAIN locals.usage_percent
              /\ gauges.cpu_user_usage[u] =
                    IF AtOrAbove(locals, u) THEN locals.usage_percent[u]
                    ELSE Zero
              /\ gauges.memory_user_usage[u] =
                    IF AtOrAbove(locals, u)
                    THEN Get(locals.user_memory_usage, u, 0) ELSE 0
        /\ \A u \in locals.removed :
              /\ u \notin Series(gauges)
              /\ u \notin MemSeries(gauges)
              /\ u \notin active

\* a tick removed one user and left another one active
C5_Witness ==
    /\ locals.removed # {}
    /\ previous_stats.users_above_threshold # {}
    /\ config.grace_period > 0

\* C6: in a tick after the first run in which delta_total_cpu_time <= 0 the
\* total percentage and every user's percentage are 0.
C6_ZeroWithoutProgress ==
    (~locals.first_run /\ locals.delta_total_cpu_time <= 0)
        => /\ gauges.cpu_total_usage = Zero
           /\ \A u \in DOMAIN locals.usage_percent :
                 locals.usage_percent[u] = Zero

\* a tick saw no progress of the total counter while a user's counter moved
C6_Witness ==
    /\ ~locals.first_run
    /\ locals.current_time >= 0
    /\ locals.delta_total_cpu_time = 0
    /\ \E u \in DOMAIN locals.delta_user : locals.delta_user[u] > 0

\* the state of alice's series in the scenario
AliceAbsent ==
    /\ "alice" \notin Series(gauges)
    /\ "alice" \notin MemSeries(gauges)
AliceAt(v) ==
    /\ "alice" \in Series(gauges)
    /\ gauges.cpu_user_usage["alice"] = v

\* C4 as the spec words it: no metrics in tick 1, alice at 8.0 in tick 2,
\* at 0.0 in ticks 3 to 8, removed in tick 9 and not before.
C4_ScenarioAsWritten ==
    /\ TicksDone = 1 => gauges = InitialGauges
    /\ TicksDone = 2 => AliceAt(RatOfInt(8))
    /\ TicksDone \in 3..8 => AliceAt(Zero)
    /\ TicksDone = 9 => AliceAbsent

\* C4 amended: no metrics in tick 1, alice at 8.0 in tick 2, at 0.0 in
\* ticks 3 to 7, removed in tick 8 (60 s after tick 2) and absent in tick 9.
C4_Scenario ==
    /\ TicksDone = 1 => gauges = InitialGauges
    /\ TicksDone = 2 => AliceAt(RatOfInt(8))
    /\ TicksDone \in 3..7 => AliceAt(Zero)
    /\ TicksDone = 8 => (AliceAbsent /\ "alice" \in locals.removed)
    /\ TicksDone = 9 => AliceAbsent

\* tick 8 of the scenario has removed alice's series
C4_Witness ==
    /\ config = ScenarioConfig
    /\ TicksDone = 8
    /\ "alice" \in locals.removed
    /\ AliceAbsent

\* C8: in a tick after the first run with delta_total_cpu_time > 0 the
\* total gauge is 100 * (delta_total - delta_idle) / delta_total and each
\* user's percentage is 100 * delta_user / delta_total; with a total gain
\* of 100, an idle gain of 40 and gains of 30 and 20 for A and B the gauges
\* read 60, 30 and 20.
C8_Percentages ==
    (~locals.first_run /\ locals.delta_total_cpu_time > 0)
    => LET dt == locals.delta_total_cpu_time
           di == locals.delta_idle_time
       IN  /\ gauges.cpu_total_usage = Rat(100 * (dt - di), dt)
           /\ \A u \in DOMAIN locals.usage_percent :
                 locals.usage_percent[u] = Rat(100 * locals.delta_user[u], dt)
           /\ (/\ dt = 100
               /\ di = 40
               /\ Get(locals.delta_user, "A", 0) = 30
               /\ Get(locals.delta_user, "B", 0) = 20)
              => /\ gauges.cpu_total_usage = RatOfInt(60)
                 /\ "A" \in Series(gauges)
                 /\ gauges.cpu_user_usage["A"] = RatOfInt(30)
                 /\ "B" \in Series(gauges)
                 /\ gauges.cpu_user_usage["B"] = RatOfInt(20)

\* a tick with the gains of the example
C8_Witness ==
    /\ ~locals.first_run
    /\ locals.delta_total_cpu_time = 100
    /\ locals.delta_idle_time = 40
    /\ Get(locals.delta_user, "A", 0) = 30
    /\ Get(locals.delta_user, "B", 0) = 20
    /\ gauges.cpu_total_usage = RatOfInt(60)

\* C7, for the ticks in which the total counter advanced: in every such
\* tick after the first run the users' deltas add up to at most
\* delta_total_cpu_time, and no user's percentage exceeds 100.
C7_AttributionBound ==
    (~locals.first_run /\ locals.delta_total_cpu_time > 0)
    => /\ SumOver(DOMAIN locals.delta_user, locals.delta_user)
             <= locals.delta_total_cpu_time
       /\ \A u \in DOMAIN locals.usage_percent :
             RatGE(RatOfInt(100), locals.usage_percent[u])

\* C9: an excluded username is never a key of the collector's per-user
\* maps, never in all_users or users_above_threshold, and never has a
\* series on either per-user gauge.
C9_ExcludedNeverAppear ==
    \A u \in config.excluded_usernames :
        /\ "previous_user_cpu_times" \in DOMAIN previous_stats
              => u \notin DOMAIN previous_stats.previous_user_cpu_times
        /\ u \notin DOMAIN locals.user_memory_usage
        /\ u \notin previous_stats.all_users
        /\ u \notin previous_stats.users_above_threshold
        /\ u \notin Series(gauges)
        /\ u \notin MemSeries(gauges)

\* a scan read a busy process of alice, excluded on the command line, in a
\* tick in which the total counter advanced and another user got a series
C9_Witness ==
    /\ "alice" \in config.excluded_usernames
    /\ ~locals.first_run
    /\ locals.delta_total_cpu_time > 0
    /\ Series(gauges) # {}
    /\ \E p \in Pids :
          /\ procs[p].alive
          /\ procs[p].uid = 1000
          /\ procs[p].cpu > 0
          /\ scan.reads[p] = "ok"

\* the process table without the processes in S
TableWithout(S) == [p \in Pids |-> IF p \in S THEN NoProc ELSE procs[p]]

\* the last scan returned what it returns for the process table without
\* the processes in S
AddNothing(S) ==
    LET rest == collect_cpu_memory_data(TableWithout(S), stat, scan.reads,
                    scan.line_present, config.exclude_system_users,
                    config.excluded_usernames)
    IN  /\ previous_stats.previous_user_cpu_times = rest.user_cpu_times
        /\ locals.user_memory_usage = rest.user_memory_usage
        /\ locals.total_memory_used = rest.total_memory_used

Bootstrap == "previous_total_cpu_time" \notin DOMAIN previous_stats

\* C11: the first tick after startup stores the totals and the per-user
\* counters of its snapshot as previous, sets all_users to exactly the users
\* of that snapshot, leaves users_above_threshold and last_seen empty and
\* changes none of the four gauges; every later tick takes the other path.
C11_BootstrapOnce ==
    [][IF Bootstrap
       THEN /\ locals'.first_run
            /\ previous_stats'.previous_total_cpu_time
                  = locals'.snap.total_cpu_time
            /\ previous_stats'.previous_idle_time = locals'.snap.idle_time
            /\ previous_stats'.previous_user_cpu_times
                  = locals'.snap.user_cpu_times
            /\ previous_stats'.all_users = DOMAIN locals'.snap.user_cpu_times
            /\ previous_stats'.users_above_threshold = {}
            /\ previous_stats'.last_seen = EmptyDict
            /\ gauges' = gauges
            /\ gauges' = InitialGauges
            /\ ~Bootstrap'
       ELSE /\ ~locals'.first_run
            /\ ~Bootstrap']_vars

\* the first tick has run on a snapshot with two users
C11_Witness ==
    /\ locals.first_run
    /\ Cardinality(previous_stats.all_users) = 2
    /\ DOMAIN locals.snap.user_cpu_times = previous_stats.all_users
    /\ gauges = InitialGauges

\* C12: at the end of every tick users_above_threshold is a subset of
\* all_users, also after ticks that evict users and ticks that bring a user
\* back.
C12_ActiveAreKnown ==
    previous_stats.users_above_threshold \subseteq previous_stats.all_users

\* a tick evicted one user and left another one in users_above_threshold
C12_Witness ==
    /\ locals.removed # {}
    /\ previous_stats.users_above_threshold # {}
    /\ locals.removed \cap previous_stats.all_users = {}

\* C13: a process for which one of the three reads fails because the
\* process has exited is skipped: no exception leaves the scan, the tick
\* completes, and the scan returns what it returns for the process table
\* without that process.
C13_ExitedProcessesSkipped ==
    /\ tick.at # "raised"
    /\ locals.current_time >= 0
          => AddNothing({p \in Pids : scan.reads[p] = "vanished"})

\* C14: at the end of every tick after the first, also when delta_total is
\* zero or negative, the stored previous total, idle and per-user counters
\* are those of the snapshot just processed, the deltas of the tick were
\* taken against the snapshot stored before, and in a tick with delta_total
\* <= 0 the gate and the eviction pass ran: every user of
\* users_above_threshold under the threshold was removed if its grace period
\* had run out and reports 0 on both gauges otherwise.
C14_StateAdvances ==
    [][~Bootstrap =>
        /\ previous_stats'.previous_total_cpu_time
              = locals'.snap.total_cpu_time
        /\ previous_stats'.previous_idle_time = locals'.snap.idle_time
        /\ previous_stats'.previous_user_cpu_times
              = locals'.snap.user_cpu_times
        /\ locals'.delta_total_cpu_time
              = locals'.snap.total_cpu_time
                  - previous_stats.previous_total_cpu_time
        /\ \A u \in DOMAIN locals'.delta_user :
              locals'.delta_user[u]
                = Get(locals'.snap.user_cpu_times, u, 0)
                    - Get(previous_stats.previous_user_cpu_times, u, 0)
        /\ locals'.delta_total_cpu_time <= 0 =>
              \A u \in previous_stats.users_above_threshold :
                 Under(locals', u) =>
                    IF locals'.current_time - previous_stats.last_seen[u]
                          >= config.grace_period
                    THEN /\ u \in locals'.removed
                         /\ u \notin Series(gauges')
                         /\ u \notin MemSeries(gauges')
                    ELSE /\ u \in Series(gauges')
                         /\ gauges'.cpu_user_usage[u] = Zero
                         /\ u \in MemSeries(gauges')
                         /\ gauges'.memory_user_usage[u] = 0]_vars

\* a tick in which the total counter went back stored the smaller total and
\* set the series of a user to 0
C14_Witness ==
    /\ ~locals.first_run
    /\ locals.delta_total_cpu_time < 0
    /\ previous_stats.previous_total_cpu_time = locals.snap.total_cpu_time
    /\ \E u \in Series(gauges) :
          /\ gauges.cpu_user_usage[u] = Zero
          /\ Get(locals.snap.user_cpu_times, u, 0) > 0

\* the values the gate loop of the call left for user u are those of a user
\* at or over the threshold: the percentage, the memory of the snapshot,
\* the time of the call, and membership in users_above_threshold
Published(l, u) ==
    /\ u \in DOMAIN l.gate.cpu_user_usage
    /\ l.gate.cpu_user_usage[u] = l.usage_percent[u]
    /\ u \in DOMAIN l.gate.memory_user_usage
    /\ l.gate.memory_user_usage[u] = Get(l.snap.user_memory_usage, u, 0)
    /\ u \in DOMAIN l.gate.last_seen
    /\ l.gate.last_seen[u] = l.current_time
    /\ u \in l.gate.users_above_threshold

\* C15: in a tick after the first in which a user's percentage is at or
\* over the threshold, whether or not the user had a series before, the gate
\* sets cpu_user_usage to the percentage and memory_user_usage to the
\* user's memory in the snapshot, sets last_seen to the time of the tick and
\* puts the user into users_above_threshold; the eviction pass of the tick
\* counts the grace period from this tick (elapsed time 0), and a user it
\* keeps ends the tick with these values.
C15_PublishedAtThreshold ==
    [][~Bootstrap =>
        \A u \in Names :
           AtOrAbove(locals', u) =>
              /\ Published(locals', u)
              /\ u \in locals'.removed <=> 0 >= config.grace_period
              /\ u \notin locals'.removed =>
                    /\ u \in Series(gauges')
                    /\ gauges'.cpu_user_usage[u] = locals'.usage_percent[u]
                    /\ u \in MemSeries(gauges')
                    /\ gauges'.memory_user_usage[u]
                          = Get(locals'.snap.user_memory_usage, u, 0)
                    /\ u \in DOMAIN previous_stats'.last_seen
                    /\ previous_stats'.last_seen[u] = locals'.current_time
                    /\ u \in previous_stats'.users_above_threshold]_vars

\* a user is published exactly at the threshold with its memory in the
\* fourth tick or a later one
C15_Witness ==
    \E u \in Series(gauges) :
        /\ locals.usage_percent[u] = Threshold
        /\ gauges.cpu_user_usage[u] = Threshold
        /\ gauges.memory_user_usage[u] = PageSize
        /\ previous_stats.last_seen[u] = locals.current_time
        /\ locals.current_time >= 3 * config.scrape_interval

\* C16: a tick in which a user's percentage is under the threshold leaves
\* last_seen[user] as it was: the entry of a user that has one keeps its
\* time through the gate and, unless the eviction pass drops it, to the end
\* of the tick, and a user without an entry gets none.
C16_LastSeenKeptBelowThreshold ==
    [][~Bootstrap =>
        \A u \in Names :
           Under(locals', u) =>
              IF u \in DOMAIN previous_stats.last_seen
              THEN /\ u \in DOMAIN locals'.gate.last_seen
                   /\ locals'.gate.last_seen[u] = previous_stats.last_seen[u]
                   /\ u \in DOMAIN previous_stats'.last_seen =>
                         previous_stats'.last_seen[u]
                            = previous_stats.last_seen[u]
              ELSE /\ u \notin DOMAIN locals'.gate.last_seen
                   /\ u \notin DOMAIN previous_stats'.last_seen]_vars

\* a user seen over the threshold in an earlier tick is under it with a
\* percentage other than 0 and keeps the earlier time
C16_Witness ==
    \E u \in DOMAIN previous_stats.last_seen :
        /\ Under(locals, u)
        /\ locals.usage_percent[u] # Zero
        /\ previous_stats.last_seen[u] < locals.current_time

\* the gauges at the end of the update_metrics call in progress
AfterUpdate ==
    update_metrics(previous_stats, tick.before, tick.snap, tick.current_time,
                   config.grace_period, config.cpu_usage_threshold).gauges

\* the gauge calls of a call, one after the other, leave the gauges as
\* update_metrics taken as one step does
CallsAddUp ==
    [][(tick.at = "update" /\ tick'.at = "sleep") => gauges = AfterUpdate]_vars

\* C17: a scrape that reads the gauges while an update_metrics call is in
\* progress sees no part of the call: the series it read are all as before
\* the call or all as after it, and no user has a cpu_user_usage series
\* without a memory_user_usage series or the reverse.
C17_PullSeesWholeTicks ==
    /\ DOMAIN pulled.cpu_user_usage = DOMAIN pulled.memory_user_usage
    /\ (tick.at = "update" /\ pulled.mid_update
            /\ PerUser(pulled) = PerUser(gauges))
          => PerUser(pulled) \in {PerUser(tick.before), PerUser(AfterUpdate)}

\* C18: for every grace period, 0 included, a user whose percentage is at
\* or over the threshold in a tick is not evicted by the eviction pass of
\* that tick: at the end of the tick it is in users_above_threshold and its
\* cpu_user_usage series holds the percentage.
C18_NotEvictedWhenPublished ==
    [][~Bootstrap =>
        \A u \in Names :
           AtOrAbove(locals', u) =>
              /\ u \notin locals'.removed
              /\ u \in previous_stats'.users_above_threshold
              /\ u \in Series(gauges')
              /\ gauges'.cpu_user_usage[u] = locals'.usage_percent[u]]_vars

\* the value is 0 or at least the threshold
ZeroOrAtThreshold(v) == v = Zero \/ RatGE(v, Threshold)

\* C19: with a threshold of at least 0, every value written to a
\* cpu_user_usage series, by the gate or left at the end of a tick, is
\* exactly 0 or at least the threshold; a negative user delta with a
\* positive delta_total does not get a negative value published.
C19_ZeroOrAtThreshold ==
    RatGE(Threshold, Zero) =>
        /\ \A u \in Series(gauges) : ZeroOrAtThreshold(gauges.cpu_user_usage[u])
        /\ \A u \in DOMAIN locals.gate.cpu_user_usage :
              ZeroOrAtThreshold(locals.gate.cpu_user_usage[u])

\* the counter of a user with a series went back while the total went on,
\* and the series reads 0
C19_Witness ==
    \E u \in Series(gauges) :
        /\ locals.delta_total_cpu_time > 0
        /\ locals.delta_user[u] < 0
        /\ ~RatGE(locals.usage_percent[u], Zero)
        /\ gauges.cpu_user_usage[u] = Zero

\* C20: at the end of every tick the keys of last_seen are the users of
\* users_above_threshold, and the eviction pass finds an entry for every
\* user it goes through, so its fallback time 0 is never used.
C20_LastSeenKeysAreActive ==
    /\ DOMAIN previous_stats.last_seen = previous_stats.users_above_threshold
    /\ locals.gate.users_above_threshold \subseteq DOMAIN locals.gate.last_seen

\* the eviction pass kept a user last seen in an earlier tick
C20_Witness ==
    \E u \in previous_stats.users_above_threshold :
        /\ u \in locals.gate.users_above_threshold
        /\ previous_stats.last_seen[u] < locals.current_time
        /\ locals.current_time - previous_stats.last_seen[u]
              < config.grace_period

====
